---- MODULE Spec2Model ----
(***************************************************************************)
(* Model of rocket-caching-layer: the CachedCompression rewriter           *)
(* (src/src/lib.rs).  A request is answered by Rewriter::rewrite, which    *)
(* negotiates an algorithm (get_valid), looks the file up in the shared    *)
(* DashMap and either rewrites the response to the artifact or spawns a    *)
(* background task (dispatch) that compresses the file (compress).         *)
(*                                                                         *)
(* Strings are sequences of one-character strings, so that split, trim and *)
(* parse are computed character by character as the code does.  A path is  *)
(* the sequence of the '.'-separated pieces of its file name, every asset  *)
(* living in the one directory the file server serves.  Option<T> is a     *)
(* sequence of length at most one: <<>> is None and <<x>> is Some(x).       *)
(*                                                                         *)
(* Spec is the rewriter with its background tasks.  Negotiation applies    *)
(* get_valid alone, the library's and the copy in src/src/main.rs, to      *)
(* Accept-Encoding headers of several codings and parameters.              *)
(***************************************************************************)
EXTENDS Integers, Sequences, FiniteSets, Bags, TLC

VARIABLES map, tasks, fs, last

vars == <<map, tasks, fs, last>>

-----------------------------------------------------------------------------
(* Bounds of the model *)

\* number of background tasks spawned in one run
MaxTasks == 2

\* stand-ins for the two 1024-byte buffers of compress
InBufLen == 1
OutBufLen == 2

\* the Accept-Encoding headers negotiation is checked on: the codings of a
\* header, and the parameters of all its codings together
MaxItems == 2
MaxParams == 2

-----------------------------------------------------------------------------
(* Option and string helpers *)

None == <<>>
Some(x) == <<x>>

Min(a, b) == IF a < b THEN a ELSE b

Whitespace == {" ", "\t"}

\* position of the first c in s, 0 when there is none
IndexOf(s, c) ==
    IF \E i \in 1..Len(s) : s[i] = c
    THEN CHOOSE i \in 1..Len(s) : s[i] = c /\ \A j \in 1..(i - 1) : s[j] # c
    ELSE 0

\* str::split(c): the pieces between the c's, one piece for a string without c
RECURSIVE split(_, _)
split(s, c) ==
    IF IndexOf(s, c) = 0 THEN <<s>>
    ELSE <<SubSeq(s, 1, IndexOf(s, c) - 1)>>
         \o split(SubSeq(s, IndexOf(s, c) + 1, Len(s)), c)

\* str::split_once(c)
split_at(s, i) ==
    IF i = 0 THEN None
    ELSE Some(<<SubSeq(s, 1, i - 1), SubSeq(s, i + 1, Len(s))>>)

split_once(s, c) == split_at(s, IndexOf(s, c))

\* str::trim
RECURSIVE trim_start(_)
trim_start(s) ==
    IF s # <<>> /\ Head(s) \in Whitespace THEN trim_start(Tail(s)) ELSE s

RECURSIVE trim_end(_)
trim_end(s) ==
    IF s # <<>> /\ s[Len(s)] \in Whitespace
    THEN trim_end(SubSeq(s, 1, Len(s) - 1)) ELSE s

trim(s) == trim_end(trim_start(s))

Digits == {"0", "1", "2", "3", "4", "5", "6", "7", "8", "9"}

IsDigits(s) == \A i \in 1..Len(s) : s[i] \in Digits

AllZero(s) == \A i \in 1..Len(s) : s[i] = "0"

Lower(c) ==
    CASE c = "I" -> "i" [] c = "N" -> "n" [] c = "F" -> "f" [] c = "A" -> "a"
      [] c = "T" -> "t" [] c = "Y" -> "y" [] OTHER -> c

\* <f32 as FromStr>::from_str, as far as `val == 0.` can tell its results
\* apart: Some("zero"), Some("nonzero") (NaN and the infinities included), or
\* None for a string that is no number.  A number is an optional sign, digits
\* with at most one '.', and an optional exponent.
strip_sign(s) == IF s # <<>> /\ Head(s) \in {"+", "-"} THEN Tail(s) ELSE s

exponent_at(s) == IF IndexOf(s, "e") # 0 THEN IndexOf(s, "e") ELSE IndexOf(s, "E")

IsSpecial(s) ==
    [i \in 1..Len(s) |-> Lower(s[i])]
        \in {<<"i", "n", "f">>, <<"n", "a", "n">>,
             <<"i", "n", "f", "i", "n", "i", "t", "y">>}

parse_decimal(mant, dot) ==
    IF dot = 0
    THEN IF mant # <<>> /\ IsDigits(mant)
         THEN Some(IF AllZero(mant) THEN "zero" ELSE "nonzero")
         ELSE None
    ELSE IF /\ Len(mant) > 1
            /\ \A i \in 1..Len(mant) : i # dot => mant[i] \in Digits
         THEN Some(IF \A i \in 1..Len(mant) : i # dot => mant[i] = "0"
                   THEN "zero" ELSE "nonzero")
         ELSE None

parse_exponent(s, e) ==
    IF e = 0 THEN parse_decimal(s, IndexOf(s, "."))
    ELSE IF parse_decimal(strip_sign(SubSeq(s, e + 1, Len(s))), 0) = None THEN None
    ELSE parse_decimal(SubSeq(s, 1, e - 1), IndexOf(SubSeq(s, 1, e - 1), "."))

parse_unsigned(s) ==
    IF IsSpecial(s) THEN Some("nonzero") ELSE parse_exponent(s, exponent_at(s))

\* The value is kept as "zero" or "nonzero", which is all get_valid looks at;
\* a nonzero mantissa whose exponent underflows f32 counts as nonzero here.
parse_f32(s) == parse_unsigned(strip_sign(s))

\* Option::unwrap_or
unwrap_or(opt, default) == IF opt = None THEN default ELSE opt[1]

-----------------------------------------------------------------------------
(* Algorithm *)

Gzip == "Gzip"

Algorithm == {Gzip}

\* the characters of the string literals the code compares against
Chars(str) ==
    CASE str = "gzip" -> <<"g", "z", "i", "p">>
      [] str = "q" -> <<"q">>

\* Algorithm::name, also used by Display
name(algo) == CASE algo = Gzip -> "gzip"

\* Algorithm::from_name
from_name(n) == IF n = Chars("gzip") THEN Some(Gzip) ELSE None

-----------------------------------------------------------------------------
(* Negotiation: CachedCompression::get_valid *)

\* RejectsPair with the key compared as written, not trimmed
RejectsPair_untrimmed(key, val) ==
    unwrap_or(parse_f32(trim(val)), "zero") = "zero" /\ key = Chars("q")

\* the closure given to the first filter_map, on one coding item: a parameter
\* `q = <zero or no number>` makes it None, else it is the trimmed name
RejectsPair(key, val) ==
    unwrap_or(parse_f32(trim(val)), "zero") = "zero" /\ trim(key) = Chars("q")

RejectsParam(kv) == kv # None /\ RejectsPair(kv[1][1], kv[1][2])

accepted_parts(parts) ==
    IF \E i \in 2..Len(parts) : RejectsParam(split_once(parts[i], "="))
    THEN None
    ELSE Some(trim(Head(parts)))

accepted_name(coding) == accepted_parts(split(coding, ";"))

\* flat_map(|v| v.split(',')) over the values of the Accept-Encoding header
RECURSIVE flat_split(_)
flat_split(values) ==
    IF values = <<>> THEN <<>>
    ELSE split(Head(values), ",") \o flat_split(Tail(values))

\* the second filter_map
known(n) == IF n = None THEN None ELSE from_name(n[1])

\* both filter_maps on one coding item
coding_choice(coding) == known(accepted_name(coding))

\* first_choice that looks at the first item of the list only
first_choice_head(codings) ==
    IF codings = <<>> THEN None ELSE coding_choice(Head(codings))

\* nth(0) of the items that pass both
RECURSIVE first_choice(_)
first_choice(codings) ==
    IF codings = <<>> THEN None
    ELSE IF coding_choice(Head(codings)) # None THEN coding_choice(Head(codings))
    ELSE first_choice(Tail(codings))

get_valid(values) == first_choice(flat_split(values))

\* get_valid of src/src/main.rs, the binary's copy: it looks at the text up to
\* the first '=' after the first ';' as the one parameter name, and at all
\* the rest of the item as its value
main_keeps(key, val) ==
    unwrap_or(parse_f32(trim(val)), "zero") # "zero" \/ trim(key) # Chars("q")

main_accepted_param(n, kv) ==
    IF kv = None THEN None
    ELSE IF main_keeps(kv[1][1], kv[1][2]) THEN Some(trim(n))
    ELSE None

main_accepted_parts(coding, np) ==
    IF np = None THEN Some(trim(coding))
    ELSE main_accepted_param(np[1][1], split_once(np[1][2], "="))

main_accepted_name(coding) == main_accepted_parts(coding, split_once(coding, ";"))

main_coding_choice(coding) == known(main_accepted_name(coding))

RECURSIVE main_first_choice(_)
main_first_choice(codings) ==
    IF codings = <<>> THEN None
    ELSE IF main_coding_choice(Head(codings)) # None
         THEN main_coding_choice(Head(codings))
    ELSE main_first_choice(Tail(codings))

main_get_valid(values) == main_first_choice(flat_split(values))

\* The Accept-Encoding headers of the requests, each the list of the header's
\* values (none for a request without the header).
AcceptValues ==
    [ absent |-> <<>>,
      gzip |-> << <<"g", "z", "i", "p">> >>,
      gzip_q0 |-> << <<"g", "z", "i", "p", ";", " ", "q", " ", "=", " ", "0">> >>,
      flate |-> << <<"f", "l", "a", "t", "e">> >> ]

AcceptHeaders == DOMAIN AcceptValues

Negotiated == [h \in AcceptHeaders |-> get_valid(AcceptValues[h])]

-----------------------------------------------------------------------------
(* Paths and the file system *)

\* a piece of a file name that is not valid UTF-8
NonUtf8 == "<ff>"

Index == <<"index", "txt">>
Raw == <<NonUtf8>>

\* Path::file_name().and_then(OsStr::to_str): None for a name that is not UTF-8
file_name_str(path) ==
    IF \E i \in 1..Len(path) : path[i] = NonUtf8 THEN None ELSE Some(path)

\* format!("{}.{algo}", file_name) given to with_file_name / set_file_name
suffixed(file_name, algo) == Append(file_name, name(algo))

\* Path::extension().to_str()
extension(path) ==
    IF Len(path) < 2 \/ (Len(path) = 2 /\ path[1] = "") \/ path[Len(path)] = NonUtf8
    THEN None
    ELSE Some(path[Len(path)])

\* content_type_from_path: ContentType::from_extension of the extension
content_type_from_path(path) ==
    LET ext == extension(path)
    IN  IF ext = None THEN None
        ELSE IF ext[1] = "txt" THEN Some("text/plain; charset=utf-8")
        ELSE None

\* the files the file server can hand to the rewriter as regular files
Assets == {Index, suffixed(Index, Gzip), Raw}

\* every file a task can touch
Files == Assets \cup {suffixed(p, Gzip) : p \in Assets}

NoFile == [exists |-> FALSE, data |-> <<>>]

\* bytes: the gzip header and trailer, the bytes of the source files, and the
\* deflate coding of a byte
HeaderByte == 1
TrailerByte == 2
DeflateShift == 10
Deflate(bytes) == [i \in 1..Len(bytes) |-> bytes[i] + DeflateShift]

InitialFiles ==
    [p \in Files |->
        IF p = Index THEN [exists |-> TRUE, data |-> <<3>>]
        ELSE IF p = Raw THEN [exists |-> TRUE, data |-> <<5>>]
        ELSE NoFile]

-----------------------------------------------------------------------------
(* The cache: DashMap<PathBuf, Info> *)

EmptyInfo == [compressions |-> <<>>, pending |-> <<>>]

contains(vec, x) == \E i \in 1..Len(vec) : vec[i] = x

\* Vec::retain(|a| *a != x)
RECURSIVE retain_not(_, _)
retain_not(vec, x) ==
    IF vec = <<>> THEN <<>>
    ELSE IF Head(vec) = x THEN retain_not(Tail(vec), x)
    ELSE <<Head(vec)>> \o retain_not(Tail(vec), x)

\* map.entry(path).or_insert(Info { compressions: vec![], pending: vec![] })
entry_or_insert(m, path) == IF path \in DOMAIN m THEN m[path] ELSE EmptyInfo

put(m, path, info) == [q \in DOMAIN m \cup {path} |-> IF q = path THEN info ELSE m[q]]

\* is_ready looking at pending instead of compressions
is_ready_pending(m, path, algo) == path \in DOMAIN m /\ contains(m[path].pending, algo)

\* map.get(path).is_some_and(|info| info.compressions.contains(&algo))
is_ready(m, path, algo) == path \in DOMAIN m /\ contains(m[path].compressions, algo)

\* try_begin without the `if v.pending.contains(&algo) { return; }`
try_begin_unchecked(m, path, algo) ==
    [begun |-> TRUE,
     map |-> put(m, path, [entry_or_insert(m, path) EXCEPT !.pending = Append(@, algo)])]

\* the first block of the spawned task: whether it goes on, and the map it leaves
try_begin(m, path, algo) ==
    LET v == entry_or_insert(m, path)
    IN  IF contains(v.pending, algo)
        THEN [begun |-> FALSE, map |-> put(m, path, v)]
        ELSE [begun |-> TRUE,
              map |-> put(m, path, [v EXCEPT !.pending = Append(@, algo)])]

\* finish that also drops the algorithm from compressions when the job failed
finish_evicting(m, path, algo, success) ==
    put(m, path,
        IF success
        THEN [pending |-> retain_not(entry_or_insert(m, path).pending, algo),
              compressions |-> Append(entry_or_insert(m, path).compressions, algo)]
        ELSE [pending |-> retain_not(entry_or_insert(m, path).pending, algo),
              compressions |-> retain_not(entry_or_insert(m, path).compressions, algo)])

\* finish without the `v.compressions.push(algo)`
finish_forgetful(m, path, algo, success) ==
    put(m, path, [entry_or_insert(m, path) EXCEPT !.pending = retain_not(@, algo)])

\* the last block of the spawned task
finish(m, path, algo, success) ==
    LET v == entry_or_insert(m, path)
        cleared == [v EXCEPT !.pending = retain_not(@, algo)]
    IN  put(m, path,
            IF success
            THEN [cleared EXCEPT !.compressions = Append(@, algo)]
            ELSE cleared)

-----------------------------------------------------------------------------
(* The compressor: flate2::Compress, as compress uses it *)

\* Compress::new_gzip: the header is the first output the stream owes
new_gzip == [queue |-> <<HeaderByte>>, finishing |-> FALSE]

\* compress(input, output_buf, FlushCompress::None): the calls the library can
\* answer with.  It takes k bytes of the input and gives m bytes of what it
\* owes; it takes all the input unless the output buffer is full; it reports
\* Ok when it made progress.  The other statuses are the ones compress
\* matches on.
compress_none(z, input) ==
    { [status |-> "Ok", consumed |-> km[1],
       out |-> SubSeq(z.queue \o Deflate(SubSeq(input, 1, km[1])), 1, km[2]),
       z |-> [z EXCEPT !.queue =
                 SubSeq(z.queue \o Deflate(SubSeq(input, 1, km[1])),
                        km[2] + 1, Len(z.queue) + km[1])]] :
        km \in { x \in (0..Len(input)) \X (0..OutBufLen) :
                   /\ x[2] <= Len(z.queue) + x[1]
                   /\ x[1] + x[2] > 0
                   /\ (x[1] = Len(input) \/ x[2] = OutBufLen) } }
    \cup { [status |-> st, consumed |-> 0, out |-> <<>>, z |-> z] :
             st \in {"BufError", "Err", "StreamEnd"} }

\* compress(&[], output_buf, FlushCompress::Finish): the trailer joins what the
\* stream owes, as much as fits in the buffer is given, and the stream has
\* ended when nothing is owed and the buffer was not filled.
compress_finish(z) ==
    LET owed == IF z.finishing THEN z.queue ELSE Append(z.queue, TrailerByte)
        m == Min(OutBufLen, Len(owed))
        rest == SubSeq(owed, m + 1, Len(owed))
    IN  { [status |-> IF rest = <<>> /\ m < OutBufLen THEN "StreamEnd" ELSE "Ok",
           consumed |-> 0, out |-> SubSeq(owed, 1, m),
           z |-> [queue |-> rest, finishing |-> TRUE]] }
        \cup { [status |-> st, consumed |-> 0, out |-> <<>>, z |-> z] :
                 st \in {"BufError", "Err"} }

-----------------------------------------------------------------------------
(* State *)

\* A spawned task: where it is (pc) and the locals of dispatch and compress.
\* tasks is the bag of the tasks spawned so far.
NewTask(algo, path) ==
    [algo |-> algo, path |-> path, pc |-> "spawned",
     success |-> FALSE, off |-> 0, rem |-> <<>>, z |-> new_gzip]

\* the task at pc with its locals dropped
At(t, pc) ==
    [algo |-> t.algo, path |-> t.path, pc |-> pc,
     success |-> FALSE, off |-> 0, rem |-> <<>>, z |-> new_gzip]

\* Returned taking every return of compress for Ok(())
Returned_ok(t, ok) == [At(t, "finish") EXCEPT !.success = TRUE]

\* compress has returned: Ok(()) or Err
Returned(t, ok) == [At(t, "finish") EXCEPT !.success = ok]

new_path(t) == suffixed(t.path, t.algo)

Tasks == BagToSet(tasks)

\* task t becomes u
Step(t, u) == tasks' = (tasks (-) SetToBag({t})) (+) SetToBag({u})

\* last is the latest call of rewrite: the request and the response returned,
\* kept while the request is open; of a request that was completed or
\* cancelled only that is kept
NoRequest ==
    [req |-> [kind |-> "Init", path |-> <<>>, headers |-> <<>>, accept |-> "absent"],
     resp |-> [kind |-> "Init", path |-> <<>>, headers |-> <<>>],
     state |-> "none"]

Init ==
    /\ map = [q \in {} |-> EmptyInfo]
    /\ tasks = EmptyBag
    /\ fs = InitialFiles
    /\ last = NoRequest

-----------------------------------------------------------------------------
(* The background task of dispatch *)

\* lib.rs:90-100
TryBegin(t) ==
    LET r == try_begin(map, t.path, t.algo)
    IN  /\ t.pc = "spawned"
        /\ map' = r.map
        /\ Step(t, At(t, IF r.begun THEN "begun" ELSE "returned"))
        /\ UNCHANGED <<fs, last>>

\* lib.rs:101-105 and File::open(path) of compress: the unwraps panic on a file
\* name that is not UTF-8; opening fails on a missing file or an I/O error
Open(t) ==
    /\ t.pc = "begun"
    /\ IF file_name_str(t.path) = None
       THEN Step(t, At(t, "panicked"))
       ELSE \/ /\ fs[t.path].exists
               /\ Step(t, At(t, "create"))
            \/ Step(t, Returned(t, FALSE))
    /\ UNCHANGED <<map, fs, last>>

\* File::create(new_path)
Create(t) ==
    /\ t.pc = "create"
    /\ \/ /\ fs' = [fs EXCEPT ![new_path(t)] = [exists |-> TRUE, data |-> <<>>]]
          /\ Step(t, At(t, "read"))
       \/ /\ Step(t, Returned(t, FALSE))
          /\ UNCHANGED fs
    /\ UNCHANGED <<map, last>>

\* input.read(&mut input_buf): an error, 0 at the end of the file, or some of
\* the bytes at the file position, at most a buffer of them
Read(t) ==
    LET avail == IF fs[t.path].exists THEN Len(fs[t.path].data) - t.off ELSE 0
    IN  /\ t.pc = "read"
        /\ \/ Step(t, Returned(t, FALSE))
           \/ /\ avail <= 0
              /\ Step(t, [t EXCEPT !.pc = "flush"])
           \/ \E size \in 1..Min(InBufLen, avail) :
                Step(t, [t EXCEPT !.pc = "feed",
                                  !.off = t.off + size,
                                  !.rem = SubSeq(fs[t.path].data, t.off + 1, t.off + size)])
        /\ UNCHANGED <<map, fs, last>>

\* output.write_all(bytes): the bytes follow the file's, or an I/O error
WriteAll(t, bytes, u) ==
    \/ /\ fs' = [fs EXCEPT ![new_path(t)].data = @ \o bytes]
       /\ Step(t, u)
    \/ /\ Step(t, Returned(t, FALSE))
       /\ UNCHANGED fs

\* one turn of `while rem.len() > 0`
Feed(t) ==
    /\ t.pc = "feed"
    /\ \E r \in compress_none(t.z, t.rem) :
         CASE r.status = "Ok" ->
                LET rest == SubSeq(t.rem, r.consumed + 1, Len(t.rem))
                IN  WriteAll(t, r.out,
                             [t EXCEPT !.z = r.z, !.rem = rest,
                                       !.pc = IF rest = <<>> THEN "read" ELSE "feed"])
           [] r.status = "StreamEnd" ->
                /\ Step(t, At(t, "panicked"))
                /\ UNCHANGED fs
           [] OTHER ->
                /\ Step(t, Returned(t, FALSE))
                /\ UNCHANGED fs
    /\ UNCHANGED <<map, last>>

\* one turn of the loop entered at `size == 0`
Flush(t) ==
    /\ t.pc = "flush"
    /\ \E r \in compress_finish(t.z) :
         CASE r.status = "Ok" -> WriteAll(t, r.out, [t EXCEPT !.z = r.z])
           [] r.status = "StreamEnd" ->
                /\ Step(t, Returned(t, TRUE))
                /\ UNCHANGED fs
           [] OTHER ->
                /\ Step(t, Returned(t, FALSE))
                /\ UNCHANGED fs
    /\ UNCHANGED <<map, last>>

\* lib.rs:114-124
Finish(t) ==
    /\ t.pc = "finish"
    /\ map' = finish(map, t.path, t.algo, t.success)
    /\ Step(t, [t EXCEPT !.pc = "done"])
    /\ UNCHANGED <<fs, last>>

-----------------------------------------------------------------------------
(* Rewriter::rewrite *)

Header(n, v) == [name |-> n, value |-> v]

\* the branch taken when the artifact is ready
rewritten(file, algo) ==
    LET ct == content_type_from_path(file.path)
        typed == IF ct = None THEN file.headers
                 ELSE Append(file.headers, Header("Content-Type", ct[1]))
    IN  [kind |-> "File",
         path |-> suffixed(unwrap_or(file_name_str(file.path), <<"">>), algo),
         headers |-> Append(typed, Header("Content-Encoding", name(algo)))]

\* rewrite without the match on Some(Rewrite::File(..)): every candidate is
\* treated as a file
rewrite_any_kind(m, file, algo) ==
    IF algo = None
    THEN [resp |-> file, dispatch |-> None]
    ELSE IF is_ready(m, file.path, algo[1])
         THEN [resp |-> rewritten(file, algo[1]), dispatch |-> None]
         ELSE [resp |-> file, dispatch |-> Some(NewTask(algo[1], file.path))]

\* the body of rewrite once get_valid has answered: what rewrite returns and
\* the task dispatch spawns, if it is called
rewrite_for(m, file, algo) ==
    IF file.kind # "File" \/ algo = None
    THEN [resp |-> file, dispatch |-> None]
    ELSE IF is_ready(m, file.path, algo[1])
         THEN [resp |-> rewritten(file, algo[1]), dispatch |-> None]
         ELSE [resp |-> file, dispatch |-> Some(NewTask(algo[1], file.path))]

rewrite(m, file, accept) == rewrite_for(m, file, Negotiated[accept])

\* the headers the file server has put on the response before the rewriter
ServerHeaders == {<<Header("Cache-Control", "no-cache")>>}

\* the candidate responses: a regular file that exists, a redirect, or none
Candidates ==
    {[kind |-> "File", path |-> p, headers |-> h] :
        p \in {q \in Assets : fs[q].exists}, h \in ServerHeaders}
    \cup {[kind |-> k, path |-> <<>>, headers |-> <<>>] : k \in {"Redirect", "Absent"}}

\* one request: the response is recorded and the task, if any, is spawned
Answer(file, accept, r) ==
    /\ r.dispatch # None => BagCardinality(tasks) < MaxTasks
    /\ tasks' = IF r.dispatch = None THEN tasks
                ELSE tasks (+) SetToBag({r.dispatch[1]})
    /\ last' = [req |-> [kind |-> file.kind, path |-> file.path,
                         headers |-> file.headers, accept |-> accept],
                resp |-> r.resp,
                state |-> "open"]
    /\ UNCHANGED <<map, fs>>

Rewrite(file, accept) == Answer(file, accept, rewrite(map, file, accept))

Request == \E file \in Candidates, accept \in AcceptHeaders : Rewrite(file, accept)

\* After rewrite has returned, the request is completed by the server or
\* cancelled (its future is dropped).  The task spawned at lib.rs:89 is
\* detached: its JoinHandle is dropped at lib.rs:125.
Complete ==
    /\ last.state = "open"
    /\ last' = [NoRequest EXCEPT !.state = "completed"]
    /\ UNCHANGED <<map, tasks, fs>>

Cancel ==
    /\ last.state = "open"
    /\ last' = [NoRequest EXCEPT !.state = "cancelled"]
    /\ UNCHANGED <<map, tasks, fs>>

\* a step of the spawned task t
TaskStep(t) ==
    \/ TryBegin(t)
    \/ Open(t)
    \/ Create(t)
    \/ Read(t)
    \/ Feed(t)
    \/ Flush(t)
    \/ Finish(t)

-----------------------------------------------------------------------------

Next ==
    \/ Request
    \/ Complete
    \/ Cancel
    \/ \E t \in Tasks : TryBegin(t)
    \/ \E t \in Tasks : Open(t)
    \/ \E t \in Tasks : Create(t)
    \/ \E t \in Tasks : Read(t)
    \/ \E t \in Tasks : Feed(t)
    \/ \E t \in Tasks : Flush(t)
    \/ \E t \in Tasks : Finish(t)

Spec == Init /\ [][Next]_vars

-----------------------------------------------------------------------------
(* Negotiation on its own: get_valid of the library and of the binary are  *)
(* applied to Accept-Encoding headers put together from the texts below.   *)

\* names of codings, as written in a header
CodingNames ==
    { <<"g", "z", "i", "p">>,
      <<" ", "g", "z", "i", "p", " ">>,
      <<"G", "z", "i", "p">>,
      <<"f", "l", "a", "t", "e">> }

\* parameters, as written after a ';'
CodingParams ==
    { <<"q", "=", "0">>,
      <<" ", "q", " ", "=", " ", "0", ".", "0">>,
      <<"q", "=", "x">>,
      <<"q", "=", "1">>,
      <<" ", "q", " ", "=", " ", "0", ".", "5">>,
      <<"a", "=", "0">> }

\* how many parameters each coding of a header has
RECURSIVE Sum(_)
Sum(c) == IF c = <<>> THEN 0 ELSE Head(c) + Sum(Tail(c))

\* the shapes of a header of k codings: how many parameters each coding has
HeaderShapes(k) == { c \in [1..k -> 0..MaxParams] : Sum(c) <= MaxParams }

\* the header of the codings named `names`, its parameters `params` dealt out
\* to the codings from left to right as the shape c says
Header_of(names, c, params) ==
    [i \in 1..Len(names) |->
        [name |-> names[i],
         params |-> SubSeq(params, Sum(SubSeq(c, 1, i - 1)) + 1, Sum(SubSeq(c, 1, i)))]]

\* the text of a header: codings joined by ',', parameters led by ';'
RECURSIVE ParamsText(_)
ParamsText(ps) ==
    IF ps = <<>> THEN <<>> ELSE <<";">> \o Head(ps) \o ParamsText(Tail(ps))

CodingText(item) == item.name \o ParamsText(item.params)

RECURSIVE HeaderText(_)
HeaderText(items) ==
    IF Len(items) = 1 THEN CodingText(Head(items))
    ELSE CodingText(Head(items)) \o <<",">> \o HeaderText(Tail(items))

\* not answered yet (an Option, like the answers)
Unset == <<"unset">>

\* last holds the header and what each get_valid has answered for it
NegotiationInit ==
    /\ map = [q \in {} |-> EmptyInfo]
    /\ tasks = EmptyBag
    /\ fs = InitialFiles
    /\ \E k \in 1..MaxItems :
         \E names \in [1..k -> CodingNames], c \in HeaderShapes(k) :
           \E params \in [1..Sum(c) -> CodingParams] :
             last = [items |-> Header_of(names, c, params), lib |-> Unset, bin |-> Unset]

GetValid ==
    /\ last.lib = Unset
    /\ last' = [last EXCEPT !.lib = get_valid(<<HeaderText(last.items)>>)]
    /\ UNCHANGED <<map, tasks, fs>>

MainGetValid ==
    /\ last.bin = Unset
    /\ last' = [last EXCEPT !.bin = main_get_valid(<<HeaderText(last.items)>>)]
    /\ UNCHANGED <<map, tasks, fs>>

NegotiationNext ==
    \/ GetValid
    \/ MainGetValid

Negotiation == NegotiationInit /\ [][NegotiationNext]_vars

-----------------------------------------------------------------------------
(* Vocabulary of the properties.  The cache is read here field by field,   *)
(* not through the operators that model the code.                          *)

Completed(m, path, algo) ==
    path \in DOMAIN m /\ \E i \in 1..Len(m[path].compressions) : m[path].compressions[i] = algo

Pending(m, path, algo) ==
    path \in DOMAIN m /\ \E i \in 1..Len(m[path].pending) : m[path].pending[i] = algo

\* the task has passed the try-begin step and not the finish step
Holding(t) == t.pc \in {"begun", "create", "read", "feed", "flush", "finish", "panicked"}

\* the task holds its output file open: created, and compress has not returned
Writing(t) == t.pc \in {"read", "feed", "flush"}

SamePair(t, u) == t.path = u.path /\ t.algo = u.algo

\* how many of the tasks spawned so far are holding for (path, algo)
HoldingCount(path, algo) ==
    BagCardinality([t \in {x \in Tasks : Holding(x) /\ x.path = path /\ x.algo = algo}
                       |-> tasks[t]])

\* this step is task t becoming u
Moved(t, u) == tasks' = (tasks (-) SetToBag({t})) (+) SetToBag({u})

\* this step is a call of rewrite; last' is its request and its response
IsRequest ==
    /\ last'.state = "open"
    /\ last' # last \/ BagCardinality(tasks') > BagCardinality(tasks)

Unchanged(rq) == [kind |-> rq.kind, path |-> rq.path, headers |-> rq.headers]

HasHeader(headers, n, v) ==
    \E i \in 1..Len(headers) : headers[i].name = n /\ headers[i].value = v

HasHeaderNamed(headers, n) == \E i \in 1..Len(headers) : headers[i].name = n

-----------------------------------------------------------------------------
(* C1 *)

\* C1: for every (asset path, algorithm) at most one task is between its
\* try-begin step and its finish step; and a task that runs the try-begin step
\* goes on to compress exactly when no other task of the pair is there, and
\* returns without compressing otherwise.
C1_TryBeginExclusive ==
    \A t \in Tasks :
        t.pc = "spawned" =>
            /\ Moved(t, At(t, "begun")) =>
                   ~ \E u \in Tasks : Holding(u) /\ SamePair(t, u)
            /\ Moved(t, At(t, "returned")) =>
                   \E u \in Tasks : Holding(u) /\ SamePair(t, u)

C1_OneProducer ==
    /\ [](\A path \in Assets, algo \in Algorithm : HoldingCount(path, algo) <= 1)
    /\ [][C1_TryBeginExclusive]_vars

\* two tasks of one pair have run the try-begin step with no finish step in
\* between: one compresses, the other has returned
C1_Witness ==
    \E t, u \in Tasks :
        /\ SamePair(t, u)
        /\ Writing(t)
        /\ u.pc = "returned"

-----------------------------------------------------------------------------
(* C2 *)

\* C2: whenever algorithm A is in the completed set of path P, the artifact
\* P.A exists and no task holds it open for writing (it is not being created,
\* truncated or written).
C2_CompletedArtifactStable ==
    \A path \in Assets, algo \in Algorithm :
        Completed(map, path, algo) =>
            /\ fs[suffixed(path, algo)].exists
            /\ ~ \E t \in Tasks : Writing(t) /\ t.path = path /\ t.algo = algo

-----------------------------------------------------------------------------
(* C3 *)

\* C3: no algorithm is in both the completed set and the pending set of the
\* same path's record.
C3_CompletedPendingDisjoint ==
    \A path \in Assets, algo \in Algorithm :
        ~ (Completed(map, path, algo) /\ Pending(map, path, algo))

-----------------------------------------------------------------------------
(* C4 *)

\* C4: a task whose try-begin step inserted the algorithm into pending ends
\* only by its finish step: a task that has stopped either returned at the
\* try-begin step or has finished.
C4_BegunTaskFinishes ==
    \A t \in Tasks : t.pc # "panicked"

-----------------------------------------------------------------------------
(* C5 *)

\* C5: a finish step with success = true makes the pair ready, and a pair that
\* is ready stays ready over every step.
C5_Step ==
    /\ \A path \in Assets, algo \in Algorithm :
           Completed(map, path, algo) => Completed(map', path, algo)
    /\ \A t \in Tasks :
           (t.pc = "finish" /\ t.success /\ Moved(t, [t EXCEPT !.pc = "done"]))
               => Completed(map', t.path, t.algo)

C5_ReadyStaysReady == [][C5_Step]_vars

\* a pair is ready and a later job of the same pair has failed
C5_Witness ==
    \E t \in Tasks :
        /\ t.pc = "done" /\ ~ t.success
        /\ Completed(map, t.path, t.algo)

-----------------------------------------------------------------------------
(* C6 *)

\* C6: right after a finish step with success = false the pair is not ready
\* and the algorithm is in neither pending nor completed.
C6_Step ==
    \A t \in Tasks :
        (t.pc = "finish" /\ ~ t.success /\ Moved(t, [t EXCEPT !.pc = "done"]))
            => /\ ~ Completed(map', t.path, t.algo)
               /\ ~ Pending(map', t.path, t.algo)

C6_FailureCleansRecord == [][C6_Step]_vars

-----------------------------------------------------------------------------
(* C7 *)

\* no request that accepts an algorithm was made for the path before
NeverRequested(path) == path \notin DOMAIN map /\ ~ \E t \in Tasks : t.path = path

\* C7: the first request accepting gzip for an asset never requested before
\* is answered unchanged, without Content-Encoding, and spawns a task for the
\* asset; once a task of the asset has finished with success, a request
\* accepting gzip is answered with the artifact path and Content-Encoding: gzip.
C7_Step ==
    (IsRequest /\ last'.req.kind = "File" /\ last'.req.accept = "gzip") =>
        /\ NeverRequested(last'.req.path) =>
               /\ last'.resp = Unchanged(last'.req)
               /\ ~ HasHeaderNamed(last'.resp.headers, "Content-Encoding")
               /\ tasks' = tasks (+) SetToBag({NewTask(Gzip, last'.req.path)})
        /\ (\E t \in Tasks : t.path = last'.req.path /\ t.algo = Gzip
                                /\ t.pc = "done" /\ t.success) =>
               /\ last'.resp.kind = "File"
               /\ last'.resp.path = Append(last'.req.path, "gzip")
               /\ HasHeader(last'.resp.headers, "Content-Encoding", "gzip")

\* a task of the pair that returned at the try-begin step did so because a
\* job of the pair had started
C7_JobStarted ==
    \A t \in Tasks :
        t.pc = "returned" =>
            \E u \in Tasks : SamePair(t, u) /\ u.pc \notin {"spawned", "returned"}

C7_FirstPlainThenCompressed == [](C7_JobStarted) /\ [][C7_Step]_vars

\* the asset's job is done and a request for it got the artifact
C7_Witness ==
    /\ last.req.path = Index /\ last.req.accept = "gzip"
    /\ last.resp.path = <<"index", "txt", "gzip">>
    /\ \A t \in Tasks : t.pc = "done"

-----------------------------------------------------------------------------
(* C8 *)

\* C8: a request with no Accept-Encoding header, with only an unknown coding,
\* or with gzip at q = 0 gets the candidate response back unchanged, and the
\* call spawns no task and changes neither the cache nor the files.
C8_Step ==
    (IsRequest /\ last'.req.accept \in {"absent", "flate", "gzip_q0"}) =>
        /\ last'.resp = Unchanged(last'.req)
        /\ tasks' = tasks
        /\ map' = map
        /\ fs' = fs

C8_NoAlgorithmPassThrough == [][C8_Step]_vars

\* gzip at q = 0 was answered with the plain file although the artifact is ready
C8_Witness ==
    /\ last.req.kind = "File" /\ last.req.path = Index
    /\ last.req.accept = "gzip_q0"
    /\ last.resp.path = Index
    /\ Completed(map, Index, Gzip)

-----------------------------------------------------------------------------
(* C9 *)

\* C9: for a regular file and a negotiated algorithm A the response is
\* rewritten exactly when A is completed for the path at the lookup: then the
\* path gets ".A" appended, Content-Encoding: A is added to the headers
\* received and no task is spawned; otherwise the response is as received and
\* a task for (A, path) is spawned.
C9_Step ==
    (IsRequest /\ last'.req.kind = "File" /\ last'.req.accept = "gzip") =>
        IF Completed(map, last'.req.path, Gzip)
        THEN /\ last'.resp.kind = "File"
             /\ last'.resp.path = Append(last'.req.path, "gzip")
             /\ SubSeq(last'.resp.headers, 1, Len(last'.req.headers)) = last'.req.headers
             /\ last'.resp.headers[Len(last'.resp.headers)]
                    = [name |-> "Content-Encoding", value |-> "gzip"]
             /\ tasks' = tasks
        ELSE /\ last'.resp = Unchanged(last'.req)
             /\ tasks' = tasks (+) SetToBag({NewTask(Gzip, last'.req.path)})

C9_RewriteIffReady == [][C9_Step]_vars

\* an artifact asked for as an asset was answered with its own artifact,
\* while the asset it was made from is not ready
C9_Witness ==
    /\ last.req.path = <<"index", "txt", "gzip">> /\ last.req.accept = "gzip"
    /\ last.resp.path = <<"index", "txt", "gzip", "gzip">>
    /\ ~ Completed(map, Index, Gzip)

-----------------------------------------------------------------------------
(* C10 *)

\* C10: a candidate response that is not a regular file is returned as it
\* came, whatever the request accepts, and the call spawns no task and changes
\* neither the cache nor the files.
C10_Step ==
    (IsRequest /\ last'.req.kind # "File") =>
        /\ last'.resp = Unchanged(last'.req)
        /\ tasks' = tasks
        /\ map' = map
        /\ fs' = fs

C10_NonFilePassThrough == [][C10_Step]_vars

\* a redirect was passed through for a request that accepts gzip, with a
\* ready artifact in the cache
C10_Witness ==
    /\ last.req.kind = "Redirect" /\ last.req.accept = "gzip"
    /\ last.resp.kind = "Redirect"
    /\ Completed(map, Index, Gzip)

-----------------------------------------------------------------------------
(* C11 *)

\* this step is the try-begin step of task t
IsTryBegin(t) ==
    /\ t.pc = "spawned"
    /\ \/ Moved(t, At(t, "begun"))
       \/ Moved(t, At(t, "returned"))

\* C11: a try-begin step taken while the algorithm is completed or pending
\* for the path is a no-op: the task returns there (it starts no encoder run
\* and writes no file) and the cache and the files are as before.
C11_Step ==
    \A t \in Tasks :
        (/\ IsTryBegin(t)
         /\ Completed(map, t.path, t.algo) \/ Pending(map, t.path, t.algo))
            => /\ Moved(t, At(t, "returned"))
               /\ map' = map
               /\ fs' = fs

C11_TryBeginNoOp == [][C11_Step]_vars

-----------------------------------------------------------------------------
(* C12 *)

\* the task is inside compress with its source open
Compressing(t) == t.pc \in {"create", "read", "feed", "flush"}

\* the files the job of the task reads or writes: the asset and its artifact
Touched(t) == {t.path, Append(t.path, "gzip")}

\* C12: two tasks that are compressing different assets at the same time have
\* no file in common, for every pair of assets the file server hands over as
\* regular files.
C12_DisjointFiles ==
    \A t, u \in Tasks :
        (Compressing(t) /\ Compressing(u) /\ t.path # u.path)
            => Touched(t) \cap Touched(u) = {}

-----------------------------------------------------------------------------
(* C13 *)

\* the task has begun its job and has not come to the finish step
InJob(t) == t.pc \in {"begun", "create", "read", "feed", "flush"}

\* the task takes no part in this step
StaysPut(t) == CopiesIn(t, tasks') >= CopiesIn(t, tasks)

\* the task has ended: by a return, by its finish step or by a panic
Ended(t) == t.pc \in {"returned", "done", "panicked"}

\* C13: while the job of a task for asset P makes no step, the algorithm
\* stays pending for P, P is not ready, no other task of the pair begins a
\* job, a request for P is answered with the response as received, and every
\* task of another asset that has not ended can take its next step.
C13_Step ==
    \A s \in Tasks :
        (InJob(s) /\ StaysPut(s)) =>
            /\ Pending(map', s.path, s.algo)
            /\ ~ Completed(map', s.path, s.algo)
            /\ \A t \in Tasks :
                   (t.pc = "spawned" /\ SamePair(t, s)) => ~ Moved(t, At(t, "begun"))
            /\ (IsRequest /\ last'.req.kind = "File" /\ last'.req.path = s.path)
                   => last'.resp = Unchanged(last'.req)
            /\ \A u \in Tasks :
                   (u.path # s.path /\ ~ Ended(u)) => ENABLED TaskStep(u)

C13_StuckJobIsolated == [][C13_Step]_vars

-----------------------------------------------------------------------------
(* C14 *)

\* this step is a step of a task spawned before
IsTaskStep == \E t \in Tasks : \E u \in BagToSet(tasks') : u # t /\ Moved(t, u)

\* C14: a call of rewrite that dispatches returns its response in the very
\* step that spawns the task, with no step of the task taken (the task is at
\* its start, the cache and the files are untouched); no step of a task reads
\* or changes the request and its response; and a task that has neither
\* returned at try-begin nor finished can always take its next step, whether
\* the request is open, completed or cancelled.
C14_Step ==
    /\ (IsRequest /\ tasks' # tasks) =>
           /\ tasks' = tasks (+) SetToBag({NewTask(Gzip, last'.req.path)})
           /\ last'.resp = Unchanged(last'.req)
           /\ map' = map
           /\ fs' = fs
    /\ IsTaskStep => last' = last

C14_RunsToFinish ==
    \A t \in Tasks : t.pc \notin {"returned", "done"} => ENABLED TaskStep(t)

C14_FireAndForget == [](C14_RunsToFinish) /\ [][C14_Step]_vars

-----------------------------------------------------------------------------
(* C15 *)

\* the parameters whose key is q and whose value is zero or no number
QZeroParams ==
    { <<"q", "=", "0">>,
      <<" ", "q", " ", "=", " ", "0", ".", "0">>,
      <<"q", "=", "x">> }

\* the names that are the token of an algorithm once trimmed
KnownNames == { <<"g", "z", "i", "p">>, <<" ", "g", "z", "i", "p", " ">> }

\* the coding has a parameter q that refuses it
Refused(item) == \E i \in 1..Len(item.params) : item.params[i] \in QZeroParams

\* what negotiation has answered
Answered(choice) == choice # Unset

\* C15: for a header of one coding with a known name, negotiation (the
\* library's and the binary's) answers none exactly when one of the coding's
\* parameters is q with a value that is zero or no number, whatever the other
\* parameters and their order; a coding whose q is not zero is accepted.
C15_QZeroRejects ==
    (Len(last.items) = 1 /\ last.items[1].name \in KnownNames) =>
        /\ Answered(last.lib) => (last.lib = <<>> <=> Refused(last.items[1]))
        /\ Answered(last.bin) => (last.bin = <<>> <=> Refused(last.items[1]))

-----------------------------------------------------------------------------
(* C16 *)

\* the coding is accepted and its name, trimmed, is exactly an algorithm's token
Acceptable(item) == item.name \in KnownNames /\ ~ Refused(item)

\* the leftmost acceptable coding of the header, 0 when there is none
Leftmost(items) ==
    IF \E i \in 1..Len(items) : Acceptable(items[i])
    THEN CHOOSE i \in 1..Len(items) :
             Acceptable(items[i]) /\ \A j \in 1..(i - 1) : ~ Acceptable(items[j])
    ELSE 0

\* the algorithm a known name stands for
TokenOf(n) == CASE n \in KnownNames -> "Gzip"

\* C16: the library's negotiation answers the algorithm of the leftmost coding
\* that is accepted and known, skipping the unknown and the refused codings
\* before it, and answers none only when no coding is both.
C16_LeftmostKnownAccepted ==
    Answered(last.lib) =>
        last.lib = IF Leftmost(last.items) = 0 THEN <<>>
                   ELSE <<TokenOf(last.items[Leftmost(last.items)].name)>>

\* an unknown coding came first and the known one after it was chosen
C16_Witness ==
    /\ Len(last.items) = 2
    /\ last.items[1].name = <<"f", "l", "a", "t", "e">>
    /\ Acceptable(last.items[2])
    /\ last.lib = <<"Gzip">>

-----------------------------------------------------------------------------
(* C17 *)

\* this step is compress returning Ok(()) to task t
ReturnsOk(t) ==
    /\ t.pc = "flush"
    /\ \E u \in BagToSet(tasks') : u.pc = "finish" /\ u.success /\ Moved(t, u)

\* all the compressor produces for a source: the header, the coding of every
\* byte in order, the trailer
GzipStream(source) ==
    <<HeaderByte>> \o [i \in 1..Len(source) |-> source[i] + DeflateShift] \o <<TrailerByte>>

\* C17: when compress returns success, every byte of the source has been
\* read and given to the compressor, and the destination file holds, in
\* order, all the output of the compressor, the output of the call that
\* reported the end of the stream included.
C17_Step ==
    \A t \in Tasks :
        ReturnsOk(t) =>
            /\ t.off = Len(fs[t.path].data)
            /\ fs'[Append(t.path, "gzip")].data = GzipStream(fs[t.path].data)

C17_OutputComplete == [][C17_Step]_vars

-----------------------------------------------------------------------------
(* C18 *)

\* a gzip decoder: the content of a stream that begins with the header and
\* ends with the trailer, none (an error) for any other bytes
Gunzip(bytes) ==
    IF /\ Len(bytes) >= 2
       /\ bytes[1] = HeaderByte
       /\ bytes[Len(bytes)] = TrailerByte
       /\ \A i \in 2..(Len(bytes) - 1) : bytes[i] >= DeflateShift
    THEN <<[i \in 1..(Len(bytes) - 2) |-> bytes[i + 1] - DeflateShift]>>
    ELSE <<>>

\* C18: when compress returns success, decoding the artifact gives back the
\* bytes of the source.
C18_Step ==
    \A t \in Tasks :
        ReturnsOk(t) => Gunzip(fs'[Append(t.path, "gzip")].data) = <<fs[t.path].data>>

C18_RoundTrip == [][C18_Step]_vars

-----------------------------------------------------------------------------
(* C19 *)

\* how often the algorithm stands in the completed list of the path
TimesCompleted(m, path, algo) ==
    IF path \in DOMAIN m
    THEN Cardinality({i \in 1..Len(m[path].compressions) : m[path].compressions[i] = algo})
    ELSE 0

\* the compressor of the task reports the end of the stream on its next call
StreamEnds(z) ==
    Len(IF z.finishing THEN z.queue ELSE Append(z.queue, TrailerByte)) < OutBufLen

\* C19: the completed list of a path gains an algorithm only by the finish
\* step of a task whose compress returned success; compress returns success
\* only from the finalization loop, at the end of the stream, so a failure to
\* open, create, read or write and an error of the compressor make the task
\* go to its finish step with success = false, at once and for good; that
\* finish step adds nothing to the completed list; no step of a task changes
\* a response, and a task is spawned only by a step that leaves the cache
\* and the files alone (a request, not a retry).
C19_Step ==
    /\ map' # map =>
           \A path \in DOMAIN map', algo \in Algorithm :
               TimesCompleted(map', path, algo) > TimesCompleted(map, path, algo) =>
                   \E t \in Tasks :
                       /\ t.pc = "finish" /\ t.success
                       /\ t.path = path /\ t.algo = algo
                       /\ Moved(t, [t EXCEPT !.pc = "done"])
    /\ BagCardinality(tasks') # BagCardinality(tasks) => (map' = map /\ fs' = fs)
    /\ (tasks' # tasks /\ BagCardinality(tasks') = BagCardinality(tasks)) =>
           \A t \in BagToSet(tasks (-) tasks'), u \in BagToSet(tasks' (-) tasks) :
               Moved(t, u) =>
                   /\ (InJob(t) /\ ~ InJob(u)) => (u.pc = "finish" \/ u.pc = "panicked")
                   /\ (InJob(t) /\ u.pc = "finish" /\ u.success)
                          => (t.pc = "flush" /\ StreamEnds(t.z))
                   /\ t.pc = "finish" => u = [t EXCEPT !.pc = "done"]
                   /\ (t.pc = "finish" /\ ~ t.success) =>
                          \A algo \in Algorithm :
                              TimesCompleted(map', t.path, algo)
                                  = TimesCompleted(map, t.path, algo)
                   /\ last' = last

C19_FailureNeverCompletes == [][C19_Step]_vars

\* a job has failed and finished, and its pair is neither completed nor pending
C19_Witness ==
    \E t \in Tasks :
        /\ t.pc = "done" /\ ~ t.success
        /\ ~ Completed(map, t.path, t.algo)
        /\ ~ Pending(map, t.path, t.algo)
        /\ last.state = "open" /\ last.req.path = t.path

-----------------------------------------------------------------------------
(* C20 *)

\* how often the algorithm stands in the pending list of the path
TimesPending(m, path, algo) ==
    IF path \in DOMAIN m
    THEN Cardinality({i \in 1..Len(m[path].pending) : m[path].pending[i] = algo})
    ELSE 0

\* C20: in every record each algorithm stands at most once in the pending
\* list and at most once in the completed list.
C20_ListsAreSets ==
    \A path \in Files, algo \in Algorithm :
        /\ TimesPending(map, path, algo) <= 1
        /\ TimesCompleted(map, path, algo) <= 1

====
